---- MODULE Spec2Model ----
(***************************************************************************)
(* yaml_to_json: one YAML document on stdin -> one JSON value on stdout.   *)
(* Model of src/tools/yaml_to_json.go: main, run, orderedMap.MarshalJSON   *)
(* and convertNode, with the two libraries the program calls (yaml.v3 and  *)
(* encoding/json) modelled by what they do to the values the program hands *)
(* them.  Text is a sequence of one-character strings, so that JSON string *)
(* escaping and the emitted bytes can be inspected character by character. *)
(***************************************************************************)
EXTENDS Integers, Sequences, FiniteSets, TLC

(* Largest number of nodes (key nodes not counted) of an input tree. *)
MaxNodes == 3

(***************************************************************************)
(* yaml.Node: the fields the program reads (Kind, Tag, Value, Content) and  *)
(* Alias, the target of an alias node (a sequence of zero or one node: the  *)
(* nil pointer is <<>>).                                                    *)
(***************************************************************************)
DocumentNode == "DocumentNode"
SequenceNode == "SequenceNode"
MappingNode == "MappingNode"
ScalarNode == "ScalarNode"
AliasNode == "AliasNode"
ZeroKind == "0"

Node(kind, tag, value, content, alias) ==
    [Kind |-> kind, Tag |-> tag, Value |-> value, Content |-> content, Alias |-> alias]

Scalar(tag, value) == Node(ScalarNode, tag, value, <<>>, <<>>)

(* var node yaml.Node: the zero value, before Unmarshal fills it. *)
ZeroNode == Node(ZeroKind, "", <<>>, <<>>, <<>>)

strTag == "!!str"
intTag == "!!int"
boolTag == "!!bool"
nullTag == "!!null"
floatTag == "!!float"

(***************************************************************************)
(* The value model: what convertNode returns (a Go interface{}).           *)
(***************************************************************************)
Nil == [type |-> "nil"]
BoolVal(b) == [type |-> "bool", b |-> b]
IntVal(n) == [type |-> "int", n |-> n]
(* A float64 is NaN, +Inf, -Inf or finite; the finite ones modelled are the    *)
(* integral ones, n.                                                         *)
Float64Val(class, n) == [type |-> "float64", class |-> class, n |-> n]
StringVal(s) == [type |-> "string", s |-> s]
Slice(items) == [type |-> "[]interface{}", items |-> items]
mapEntry(k, v) == [Key |-> k, Value |-> v]
orderedMap(entries) == [type |-> "orderedMap", Entries |-> entries]

(***************************************************************************)
(* yaml.v3 scalar resolution, as node.Decode(&out) applies it to a scalar  *)
(* node with out an interface{}: resolve(n.Tag, n.Value).                  *)
(***************************************************************************)
Digits == <<"0", "1", "2", "3", "4", "5", "6", "7", "8", "9">>

DigitVal(c) == (CHOOSE i \in 1..10 : Digits[i] = c) - 1

IsDigit(c) == \E i \in 1..10 : Digits[i] = c

AllDigits(s) == Len(s) > 0 /\ \A i \in 1..Len(s) : IsDigit(s[i])

RECURSIVE ParseInt(_)
ParseInt(s) ==
    IF Len(s) = 0 THEN 0
    ELSE 10 * ParseInt(SubSeq(s, 1, Len(s) - 1)) + DigitVal(s[Len(s)])

(* strconv: an integer's decimal text. *)
RECURSIVE FormatInt(_)
FormatInt(n) ==
    IF n < 0 THEN <<"-">> \o FormatInt(0 - n)
    ELSE IF n < 10 THEN <<Digits[n + 1]>>
    ELSE FormatInt(n \div 10) \o <<Digits[(n % 10) + 1]>>

(* resolve("", in): the tag and value a plain scalar's text resolves to. *)
resolvePlain(in) ==
    CASE in \in {<<>>, <<"~">>, <<"n", "u", "l", "l">>} ->
            [tag |-> nullTag, out |-> Nil]
      [] in = <<"t", "r", "u", "e">> -> [tag |-> boolTag, out |-> BoolVal(TRUE)]
      [] in = <<"f", "a", "l", "s", "e">> -> [tag |-> boolTag, out |-> BoolVal(FALSE)]
      [] in = <<".", "n", "a", "n">> -> [tag |-> floatTag, out |-> Float64Val("NaN", 0)]
      [] in = <<".", "i", "n", "f">> -> [tag |-> floatTag, out |-> Float64Val("+Inf", 0)]
      [] in = <<"-", ".", "i", "n", "f">> -> [tag |-> floatTag, out |-> Float64Val("-Inf", 0)]
      [] AllDigits(in) -> [tag |-> intTag, out |-> IntVal(ParseInt(in))]
      [] OTHER -> [tag |-> strTag, out |-> StringVal(in)]

(* resolve(tag, in): fails (failf) when the text does not resolve to the *)
(* tag the node carries.                                                  *)
resolve(tag, in) ==
    IF tag = strTag THEN [err |-> FALSE, out |-> StringVal(in)]
    ELSE LET r == resolvePlain(in) IN
         IF tag = "" \/ tag = r.tag
         THEN [err |-> FALSE, out |-> r.out]
         ELSE IF tag = floatTag /\ r.tag = intTag
         THEN [err |-> FALSE, out |-> Float64Val("finite", r.out.n)]
         ELSE [err |-> TRUE, out |-> Nil]

(* node.Decode(&out) on a scalar node. *)
Decode(node) == resolve(node.Tag, node.Value)

(***************************************************************************)
(* convertNode                                                             *)
(***************************************************************************)
RECURSIVE convertNode(_)

RECURSIVE convertPairs(_, _)

(* Faulty variant: entries kept as in a keyed map, a later pair with the   *)
(* same key replacing the earlier one.                                     *)
convertPairs_overwrite(content, i) ==
    IF i > Len(content) THEN <<>>
    ELSE (IF \E j \in (i + 2)..Len(content) :
                 (j - i) % 2 = 0 /\ content[j].Value = content[i].Value
          THEN <<>>
          ELSE <<mapEntry(content[i].Value, convertNode(content[i + 1]))>>)
         \o convertPairs(content, i + 2)

(* Faulty variant: the key node is type-resolved like a value and the      *)
(* resolved value's text used as the key.                                  *)
resolvedText(v) ==
    CASE v.type = "string" -> v.s
      [] v.type = "int" -> FormatInt(v.n)
      [] v.type = "bool" -> IF v.b THEN <<"t", "r", "u", "e">> ELSE <<"f", "a", "l", "s", "e">>
      [] OTHER -> <<"n", "u", "l", "l">>

convertPairs_resolvedKey(content, i) ==
    IF i > Len(content) THEN <<>>
    ELSE <<mapEntry(resolvedText(convertNode(content[i])), convertNode(content[i + 1]))>>
         \o convertPairs(content, i + 2)

convertPairs(content, i) ==
    IF i > Len(content) THEN <<>>
    ELSE <<mapEntry(content[i].Value, convertNode(content[i + 1]))>>
         \o convertPairs(content, i + 2)

(* Faulty variant: the loop starts at the second child and leaves the      *)
(* first element nil.                                                      *)
convertItems_skipFirst(content) ==
    [i \in 1..Len(content) |-> IF i = 1 THEN Nil ELSE convertNode(content[i])]

convertItems(content) == [i \in 1..Len(content) |-> convertNode(content[i])]

(* Faulty variant: a failed Decode is propagated instead of falling back   *)
(* to the raw text.                                                        *)
convertScalar_propagate(node) ==
    LET d == Decode(node) IN
    IF ~d.err THEN d.out ELSE [type |-> "error"]

(* case yaml.ScalarNode *)
convertScalar(node) ==
    LET d == Decode(node) IN
    IF ~d.err THEN d.out ELSE StringVal(node.Value)

(* case yaml.DocumentNode *)
convertDocument(node) ==
    IF Len(node.Content) > 0 THEN convertNode(node.Content[1]) ELSE Nil

(* Faulty variant: an alias node is converted as the node it refers to.    *)
convertOther_followAlias(node) ==
    IF node.Kind = AliasNode /\ Len(node.Alias) = 1
    THEN convertNode(node.Alias[1])
    ELSE Nil

(* default *)
convertOther(node) == Nil

convertNode(node) ==
    CASE node.Kind = MappingNode -> orderedMap(convertPairs(node.Content, 1))
      [] node.Kind = SequenceNode -> Slice(convertItems(node.Content))
      [] node.Kind = ScalarNode -> convertScalar(node)
      [] node.Kind = DocumentNode -> convertDocument(node)
      [] OTHER -> convertOther(node)

(***************************************************************************)
(* encoding/json, as the program uses it.                                   *)
(***************************************************************************)
(* One character of a JSON string literal (appendString). *)
escapeChar(c, escapeHTML) ==
    CASE c = "\"" -> <<"\\", "\"">>
      [] c = "\\" -> <<"\\", "\\">>
      [] escapeHTML /\ c = "<" -> <<"\\", "u", "0", "0", "3", "c">>
      [] escapeHTML /\ c = ">" -> <<"\\", "u", "0", "0", "3", "e">>
      [] escapeHTML /\ c = "&" -> <<"\\", "u", "0", "0", "2", "6">>
      [] OTHER -> <<c>>

RECURSIVE escapeChars(_, _)
escapeChars(s, escapeHTML) ==
    IF Len(s) = 0 THEN <<>>
    ELSE escapeChar(Head(s), escapeHTML) \o escapeChars(Tail(s), escapeHTML)

appendString(s, escapeHTML) == <<"\"">> \o escapeChars(s, escapeHTML) \o <<"\"">>

(* appendCompact(dst, src, escape): with escape set, the HTML characters     *)
(* still present in a Marshaler's output are escaped; without, the output is *)
(* copied as it is (it holds no insignificant white space here).             *)
RECURSIVE compact(_, _)
compact(b, escapeHTML) ==
    IF Len(b) = 0 THEN <<>>
    ELSE (IF escapeHTML /\ Head(b) \in {"<", ">", "&"}
          THEN escapeChar(Head(b), TRUE) ELSE <<Head(b)>>)
         \o compact(Tail(b), escapeHTML)

Ok(b) == [err |-> FALSE, bytes |-> b]
Failed == [err |-> TRUE, bytes |-> <<>>]

RECURSIVE Marshal(_, _)
RECURSIVE MarshalJSON(_)

(* The elements of a slice, comma separated; an element's error is the     *)
(* whole value's error.                                                    *)
RECURSIVE marshalItems(_, _, _)
marshalItems(items, i, escapeHTML) ==
    IF i > Len(items) THEN Ok(<<>>)
    ELSE LET one == Marshal(items[i], escapeHTML)
             rest == marshalItems(items, i + 1, escapeHTML)
         IN IF one.err \/ rest.err THEN Failed
            ELSE Ok((IF i > 1 THEN <<",">> ELSE <<>>) \o one.bytes \o rest.bytes)

(* e.marshal(v, encOpts{escapeHTML}) on a value convertNode returns. *)
Marshal(v, escapeHTML) ==
    CASE v.type = "nil" -> Ok(<<"n", "u", "l", "l">>)
      [] v.type = "bool" ->
            Ok(IF v.b THEN <<"t", "r", "u", "e">> ELSE <<"f", "a", "l", "s", "e">>)
      [] v.type = "int" -> Ok(FormatInt(v.n))
      [] v.type = "float64" ->
            IF v.class = "finite" THEN Ok(FormatInt(v.n)) ELSE Failed
      [] v.type = "string" -> Ok(appendString(v.s, escapeHTML))
      [] v.type = "[]interface{}" ->
            LET r == marshalItems(v.items, 1, escapeHTML) IN
            IF r.err THEN Failed ELSE Ok(<<"[">> \o r.bytes \o <<"]">>)
      [] v.type = "orderedMap" ->
            LET r == MarshalJSON(v) IN
            IF r.err THEN Failed ELSE Ok(compact(r.bytes, escapeHTML))

(* json.Marshal(v): the package-level function always escapes HTML. *)
jsonMarshal(v) == Marshal(v, TRUE)

(* Faulty variant: the entries are written last to first. *)
RECURSIVE marshalEntries_backwards(_, _)
marshalEntries_backwards(entries, i) ==
    IF i > Len(entries) THEN Ok(<<>>)
    ELSE LET e == entries[Len(entries) + 1 - i]
             keyBytes == jsonMarshal(StringVal(e.Key))
             valBytes == jsonMarshal(e.Value)
             rest == marshalEntries_backwards(entries, i + 1)
         IN IF keyBytes.err \/ valBytes.err \/ rest.err THEN Failed
            ELSE Ok((IF i > 1 THEN <<",">> ELSE <<>>)
                    \o keyBytes.bytes \o <<":">> \o valBytes.bytes \o rest.bytes)

RECURSIVE marshalEntries(_, _)
marshalEntries(entries, i) ==
    IF i > Len(entries) THEN Ok(<<>>)
    ELSE LET keyBytes == jsonMarshal(StringVal(entries[i].Key))
             valBytes == jsonMarshal(entries[i].Value)
             rest == marshalEntries(entries, i + 1)
         IN IF keyBytes.err \/ valBytes.err \/ rest.err THEN Failed
            ELSE Ok((IF i > 1 THEN <<",">> ELSE <<>>)
                    \o keyBytes.bytes \o <<":">> \o valBytes.bytes \o rest.bytes)

MarshalJSON(o) ==
    LET r == marshalEntries(o.Entries, 1) IN
    IF r.err THEN Failed ELSE Ok(<<"{">> \o r.bytes \o <<"}">>)

(***************************************************************************)
(* Inputs.  The syntax trees yaml.Unmarshal can hand to the program, by     *)
(* number of nodes: scalars carry the tag the parser resolved or was given, *)
(* a mapping's Content alternates key node and value node.                  *)
(***************************************************************************)
AnchoredNode == Scalar(strTag, <<"a">>)

(* *x, referring to the node anchored &x. *)
Alias == Node(AliasNode, "", <<"x">>, <<>>, <<AnchoredNode>>)

Scalars ==
    { Scalar(strTag, <<"a">>),              \* a
      Scalar(strTag, <<"<", "&", ">">>),    \* "<&>"
      Scalar(intTag, <<"1">>),              \* 1
      Scalar(boolTag, <<"t", "r", "u", "e">>),
      Scalar(nullTag, <<"~">>),
      Scalar(floatTag, <<".", "n", "a", "n">>),
      Scalar(floatTag, <<".", "i", "n", "f">>),
      Scalar(intTag, <<"a">>) }             \* !!int a

(* Key nodes: plain scalars the parser resolved to !!int and !!null. *)
KeyNodes == { Scalar(intTag, <<"1">>), Scalar(nullTag, <<"~">>) }

(* Node trees beyond the parser's: a nested document, with or without       *)
(* content, a node of no kind, an alias or a kindless node that has         *)
(* children, among a few scalars.                                           *)
OddLeaves ==
    { Node(DocumentNode, "", <<>>, <<>>, <<>>),
      Node(ZeroKind, "", <<"a">>, <<>>, <<>>),
      Scalar(strTag, <<"a">>),
      Scalar(intTag, <<"1">>),
      Scalar(floatTag, <<".", "n", "a", "n">>) }

OddParents(f) ==
    { Node(DocumentNode, "", <<>>, f, <<>>),
      Node(ZeroKind, "", <<"a">>, f, <<>>),
      Node(AliasNode, "", <<"x">>, f, <<AnchoredNode>>) }

RECURSIVE TreesOfSize(_, _)
RECURSIVE Forests(_, _)
RECURSIVE PairForests(_, _)

(* Sequences of trees with n nodes in all. *)
Forests(n, odd) ==
    IF n = 0 THEN {<<>>}
    ELSE UNION { { <<t>> \o f : t \in TreesOfSize(s, odd), f \in Forests(n - s, odd) }
                 : s \in 1..n }

(* The same, each tree behind a key node. *)
PairForests(n, odd) ==
    IF n = 0 THEN {<<>>}
    ELSE UNION { { <<k, t>> \o f : k \in KeyNodes, t \in TreesOfSize(s, odd),
                                   f \in PairForests(n - s, odd) }
                 : s \in 1..n }

TreesOfSize(n, odd) ==
    (IF n = 1 THEN {Alias} \cup (IF odd THEN OddLeaves ELSE Scalars) ELSE {})
    \cup { Node(SequenceNode, "!!seq", <<>>, f, <<>>) : f \in Forests(n - 1, odd) }
    \cup { Node(MappingNode, "!!map", <<>>, f, <<>>) : f \in PairForests(n - 1, odd) }
    \cup (IF odd /\ n > 1 THEN UNION { OddParents(f) : f \in Forests(n - 1, odd) } ELSE {})

Trees(odd) == UNION { TreesOfSize(n, odd) : n \in 1..MaxNodes }

(* The nodes of a tree in document order, key nodes included. *)
RECURSIVE Preorder(_)
RECURSIVE PreorderAll(_)
PreorderAll(content) ==
    IF Len(content) = 0 THEN <<>> ELSE Preorder(Head(content)) \o PreorderAll(Tail(content))

Preorder(node) == <<node>> \o PreorderAll(node.Content)

(* An alias refers to an anchor met earlier in the document. *)
AliasesResolved(t) ==
    LET p == Preorder(t) IN
    \A i \in 1..Len(p) :
        p[i].Kind = AliasNode => \E j \in 1..(i - 1) : p[j] = p[i].Alias[1]

ParsedTrees == { t \in Trees(FALSE) : AliasesResolved(t) }

(* What stdin holds: nothing readable, no byte, comments only, text that is *)
(* not YAML, or a document with the given root.                             *)
StdinClasses == {"unreadable", "empty", "comment", "malformed"}

Stdins ==
    { [class |-> c, root |-> ZeroNode] : c \in StdinClasses }
    \cup { [class |-> "document", root |-> t] : t \in ParsedTrees }

(***************************************************************************)
(* The process.  stdin is the environment's input; the other variables are  *)
(* run's locals, the two output streams, the exit code (-1 while running)   *)
(* and the statements of run executed so far.                               *)
(***************************************************************************)
VARIABLES stdin, pc, data, node, normalized, err, stdout, stderr, exitCode, phases

vars == <<stdin, pc, data, node, normalized, err, stdout, stderr, exitCode, phases>>

NoData == [class |-> "none", root |-> ZeroNode]
NoError == <<>>
Running == 0 - 1

Start ==
    /\ data = NoData
    /\ node = ZeroNode
    /\ normalized = Nil
    /\ err = NoError
    /\ stdout = <<>>
    /\ stderr = <<>>
    /\ exitCode = Running
    /\ phases = <<>>

Init ==
    /\ stdin \in Stdins
    /\ pc = "read"
    /\ Start

(* fmt.Errorf("<context>: %w", cause) *)
Errorf(context, cause) == <<context, cause>>

(* Faulty variant: the read error is dropped and run goes on with no data. *)
ReadAll_ignoreError ==
    /\ pc = "read"
    /\ phases' = Append(phases, "read")
    /\ data' = (IF stdin.class = "unreadable"
                THEN [class |-> "empty", root |-> ZeroNode] ELSE stdin)
    /\ pc' = "parse"
    /\ UNCHANGED <<stdin, node, normalized, err, stdout, stderr, exitCode>>

(* data, err := io.ReadAll(os.Stdin) *)
ReadAll ==
    /\ pc = "read"
    /\ phases' = Append(phases, "read")
    /\ IF stdin.class = "unreadable"
       THEN /\ err' = Errorf("read stdin", "read error")
            /\ pc' = "return"
            /\ data' = data
       ELSE /\ data' = stdin
            /\ pc' = "parse"
            /\ err' = err
    /\ UNCHANGED <<stdin, node, normalized, stdout, stderr, exitCode>>

(* yaml.Unmarshal(data, &node): an error for text that is not YAML; node   *)
(* left as it is when the stream holds no document; else the document node *)
(* with the root as its only child.                                        *)
yamlUnmarshal(d, n) ==
    CASE d.class = "malformed" -> [err |-> TRUE, node |-> n]
      [] d.class = "document" ->
            [err |-> FALSE, node |-> Node(DocumentNode, "", <<>>, <<d.root>>, <<>>)]
      [] OTHER -> [err |-> FALSE, node |-> n]

Unmarshal ==
    /\ pc = "parse"
    /\ phases' = Append(phases, "parse")
    /\ LET r == yamlUnmarshal(data, node) IN
       IF r.err
       THEN /\ err' = Errorf("parse yaml", "yaml error")
            /\ pc' = "return"
            /\ node' = node
       ELSE /\ node' = r.node
            /\ pc' = "check"
            /\ err' = err
    /\ UNCHANGED <<stdin, data, normalized, stdout, stderr, exitCode>>

(* Faulty variant: an empty document ends run without an error. *)
CheckEmpty_noError ==
    /\ pc = "check"
    /\ phases' = Append(phases, "check")
    /\ pc' = (IF Len(node.Content) = 0 THEN "return" ELSE "convert")
    /\ UNCHANGED <<stdin, data, node, normalized, err, stdout, stderr, exitCode>>

(* if len(node.Content) == 0 { return errors.New("empty document") } *)
CheckEmpty ==
    /\ pc = "check"
    /\ phases' = Append(phases, "check")
    /\ IF Len(node.Content) = 0
       THEN /\ err' = <<"empty document">>
            /\ pc' = "return"
       ELSE /\ pc' = "convert"
            /\ err' = err
    /\ UNCHANGED <<stdin, data, node, normalized, stdout, stderr, exitCode>>

(* normalized := convertNode(node.Content[0]) *)
Convert ==
    /\ pc = "convert"
    /\ phases' = Append(phases, "convert")
    /\ normalized' = convertNode(node.Content[1])
    /\ pc' = "encode"
    /\ UNCHANGED <<stdin, data, node, err, stdout, stderr, exitCode>>

(* encoder.SetEscapeHTML(false); encoder.Encode(normalized): the value is  *)
(* marshalled whole, a newline appended, and the bytes written to stdout   *)
(* in one Write, which the environment may fail.                           *)
Encode ==
    /\ pc = "encode"
    /\ phases' = Append(phases, "encode")
    /\ pc' = "return"
    /\ LET r == Marshal(normalized, FALSE) IN
       IF r.err
       THEN /\ err' = Errorf("write json", "json: unsupported value")
            /\ stdout' = stdout
       ELSE \E written \in BOOLEAN :
               IF written
               THEN /\ stdout' = stdout \o r.bytes \o <<"\n">>
                    /\ err' = err
               ELSE /\ stdout' = stdout
                    /\ err' = Errorf("write json", "write error")
    /\ UNCHANGED <<stdin, data, node, normalized, stderr, exitCode>>

(* main: report run's error on stderr and exit 1, or exit 0. *)
Main ==
    /\ pc = "return"
    /\ pc' = "exit"
    /\ IF err # NoError
       THEN /\ stderr' = Append(stderr, <<"yaml_to_json: ">> \o err \o <<"\n">>)
            /\ exitCode' = 1
       ELSE /\ stderr' = stderr
            /\ exitCode' = 0
    /\ UNCHANGED <<stdin, data, node, normalized, err, stdout, phases>>

Next == ReadAll \/ Unmarshal \/ CheckEmpty \/ Convert \/ Encode \/ Main

Spec == Init /\ [][Next]_vars

(* convertNode and the encoder on any node tree, as a pure function of the *)
(* node: the run starts at line 33 with the tree as the document's child.  *)
InitConv ==
    /\ stdin = [class |-> "none", root |-> ZeroNode]
    /\ pc = "convert"
    /\ data = NoData
    /\ node \in { Node(DocumentNode, "", <<>>, <<t>>, <<>>) : t \in Trees(TRUE) }
    /\ normalized = Nil
    /\ err = NoError
    /\ stdout = <<>>
    /\ stderr = <<>>
    /\ exitCode = Running
    /\ phases = <<>>

NextConv == Convert \/ Encode \/ Main

SpecConv == InitConv /\ [][NextConv]_vars

(***************************************************************************)
(* Reading the emitted bytes back: a JSON reader for compact JSON text,     *)
(* used only to state the properties.  An object keeps its members in text *)
(* order, with the number of commas that separated them; text that is not  *)
(* JSON reads as JBad.                                                      *)
(***************************************************************************)
JBad == [type |-> "bad"]
JLit(text) == [type |-> "literal", text |-> text]
JStr(s) == [type |-> "string", s |-> s]
JArr(elems) == [type |-> "array", elems |-> elems]
JObj(members, commas) == [type |-> "object", members |-> members, commas |-> commas]

Read(v, next) == [val |-> v, next |-> next]

Delimiters == {",", "}", "]", ":", "\n", "\"", "{", "["}

(* \uXXXX *)
Unescape(h) ==
    CASE h = <<"0", "0", "3", "c">> -> "<"
      [] h = <<"0", "0", "3", "e">> -> ">"
      [] h = <<"0", "0", "2", "6">> -> "&"
      [] OTHER -> "?"

(* The string whose opening quote is before b[i]. *)
RECURSIVE ReadString(_, _, _)
ReadString(b, i, acc) ==
    IF i > Len(b) THEN Read(JBad, i)
    ELSE IF b[i] = "\"" THEN Read(JStr(acc), i + 1)
    ELSE IF b[i] = "\\"
         THEN IF i + 1 > Len(b) THEN Read(JBad, i)
              ELSE IF b[i + 1] = "u"
                   THEN IF i + 5 > Len(b) THEN Read(JBad, i)
                        ELSE ReadString(b, i + 6,
                                        Append(acc, Unescape(SubSeq(b, i + 2, i + 5))))
                   ELSE ReadString(b, i + 2, Append(acc, b[i + 1]))
    ELSE ReadString(b, i + 1, Append(acc, b[i]))

RECURSIVE ReadLiteral(_, _, _)
ReadLiteral(b, i, acc) ==
    IF i > Len(b) \/ b[i] \in Delimiters
    THEN (IF Len(acc) = 0 THEN Read(JBad, i) ELSE Read(JLit(acc), i))
    ELSE ReadLiteral(b, i + 1, Append(acc, b[i]))

RECURSIVE ReadValue(_, _)
RECURSIVE ReadMembers(_, _, _, _)
RECURSIVE ReadElems(_, _, _)

(* The members of an object, b[i] the first character of a key. *)
ReadMembers(b, i, acc, commas) ==
    IF i > Len(b) \/ b[i] # "\"" THEN Read(JBad, i)
    ELSE LET k == ReadString(b, i + 1, <<>>) IN
         IF k.val.type = "bad" \/ k.next > Len(b) \/ b[k.next] # ":" THEN Read(JBad, i)
         ELSE LET v == ReadValue(b, k.next + 1)
                  all == Append(acc, [key |-> k.val.s, value |-> v.val])
              IN IF v.val.type = "bad" \/ v.next > Len(b) THEN Read(JBad, i)
                 ELSE IF b[v.next] = "," THEN ReadMembers(b, v.next + 1, all, commas + 1)
                 ELSE IF b[v.next] = "}" THEN Read(JObj(all, commas), v.next + 1)
                 ELSE Read(JBad, i)

ReadElems(b, i, acc) ==
    LET v == ReadValue(b, i) IN
    IF v.val.type = "bad" \/ v.next > Len(b) THEN Read(JBad, i)
    ELSE IF b[v.next] = "," THEN ReadElems(b, v.next + 1, Append(acc, v.val))
    ELSE IF b[v.next] = "]" THEN Read(JArr(Append(acc, v.val)), v.next + 1)
    ELSE Read(JBad, i)

ReadValue(b, i) ==
    IF i > Len(b) THEN Read(JBad, i)
    ELSE CASE b[i] = "{" ->
                 IF i + 1 <= Len(b) /\ b[i + 1] = "}" THEN Read(JObj(<<>>, 0), i + 2)
                 ELSE ReadMembers(b, i + 1, <<>>, 0)
           [] b[i] = "[" ->
                 IF i + 1 <= Len(b) /\ b[i + 1] = "]" THEN Read(JArr(<<>>), i + 2)
                 ELSE ReadElems(b, i + 1, <<>>)
           [] b[i] = "\"" -> ReadString(b, i + 1, <<>>)
           [] OTHER -> ReadLiteral(b, i, <<>>)

(* One JSON value followed by one newline and nothing else. *)
ReadOutput(b) ==
    LET r == ReadValue(b, 1) IN
    IF r.val.type # "bad" /\ r.next = Len(b) /\ b[r.next] = "\n" THEN r.val ELSE JBad

(* The states in which the process has ended after writing its output. *)
Emitted == pc = "exit" /\ exitCode = 0

(* The states from which convertNode has returned. *)
Converted == pc \in {"encode", "return", "exit"} /\ Len(node.Content) > 0

Root == node.Content[1]

(* The key texts of a mapping node, in Content order. *)
KeyTexts(n) == [i \in 1..(Len(n.Content) \div 2) |-> n.Content[2 * i - 1].Value]

ValueNode(n, i) == n.Content[2 * i]

NumPairs(n) == Len(n.Content) \div 2

Subnodes(n) == { Preorder(n)[i] : i \in 1..Len(Preorder(n)) }

IsMapping(n) == n.Kind = MappingNode
IsSequence(n) == n.Kind = SequenceNode

(***************************************************************************)
(* C1.  Order preservation: in the JSON the process has written, the       *)
(* object emitted for each mapping node, at any depth, lists the node's    *)
(* keys in Content order, separated by exactly n-1 commas; an empty        *)
(* mapping is emitted as {} (the only text that reads as an object with no *)
(* member).                                                                *)
(***************************************************************************)
RECURSIVE KeysInOrder(_, _)
KeysInOrder(n, j) ==
    CASE IsMapping(n) ->
            /\ j.type = "object"
            /\ Len(j.members) = NumPairs(n)
            /\ [i \in 1..Len(j.members) |-> j.members[i].key] = KeyTexts(n)
            /\ j.commas = (IF NumPairs(n) = 0 THEN 0 ELSE NumPairs(n) - 1)
            /\ \A i \in 1..NumPairs(n) : KeysInOrder(ValueNode(n, i), j.members[i].value)
      [] IsSequence(n) ->
            /\ j.type = "array"
            /\ Len(j.elems) = Len(n.Content)
            /\ \A i \in 1..Len(n.Content) : KeysInOrder(n.Content[i], j.elems[i])
      [] OTHER -> TRUE

C1_OrderPreserved == Emitted => KeysInOrder(Root, ReadOutput(stdout))

(* A mapping whose keys are not in alphabetical order has been emitted. *)
C1_Witness ==
    /\ Emitted
    /\ IsMapping(Root)
    /\ KeyTexts(Root) = << <<"~">>, <<"1">> >>

(***************************************************************************)
(* C2.  Unescaped characters, as the specification states it: the JSON the *)
(* process has written holds no \uXXXX escape (the texts of the model hold  *)
(* no backslash, so an escape in the output stands for <, > or &).         *)
(***************************************************************************)
RECURSIVE HasUnicodeEscape(_, _)
HasUnicodeEscape(b, i) ==
    IF i >= Len(b) THEN FALSE
    ELSE IF b[i] = "\\" THEN b[i + 1] = "u" \/ HasUnicodeEscape(b, i + 2)
    ELSE HasUnicodeEscape(b, i + 1)

C2_Unescaped == Emitted => ~HasUnicodeEscape(stdout, 1)

(***************************************************************************)
(* C3.  Duplicate keys: the Ordered Object convertNode builds for a mapping *)
(* node with n pairs has n entries, and the emitted object n members, each  *)
(* under its own key and with its own value, in Content order, equal keys   *)
(* included.                                                                *)
(***************************************************************************)
RECURSIVE EntriesKept(_, _)
EntriesKept(n, v) ==
    CASE IsMapping(n) ->
            /\ v.type = "orderedMap"
            /\ Len(v.Entries) = NumPairs(n)
            /\ \A i \in 1..NumPairs(n) :
                  /\ v.Entries[i].Key = KeyTexts(n)[i]
                  /\ EntriesKept(ValueNode(n, i), v.Entries[i].Value)
      [] IsSequence(n) ->
            /\ v.type = "[]interface{}"
            /\ Len(v.items) = Len(n.Content)
            /\ \A i \in 1..Len(n.Content) : EntriesKept(n.Content[i], v.items[i])
      [] OTHER -> TRUE

(* What a scalar node reads as in JSON (section 8, scalar typing). *)
ScalarJSON(n) ==
    CASE n.Tag = nullTag -> JLit(<<"n", "u", "l", "l">>)
      [] n.Tag = boolTag -> JLit(n.Value)
      [] n.Tag = intTag /\ AllDigits(n.Value) -> JLit(n.Value)
      [] OTHER -> JStr(n.Value)

RECURSIVE MembersKept(_, _)
MembersKept(n, j) ==
    CASE IsMapping(n) ->
            /\ j.type = "object"
            /\ Len(j.members) = NumPairs(n)
            /\ \A i \in 1..NumPairs(n) :
                  /\ j.members[i].key = KeyTexts(n)[i]
                  /\ ValueNode(n, i).Kind = ScalarNode
                        => j.members[i].value = ScalarJSON(ValueNode(n, i))
                  /\ MembersKept(ValueNode(n, i), j.members[i].value)
      [] IsSequence(n) ->
            /\ j.type = "array"
            /\ Len(j.elems) = Len(n.Content)
            /\ \A i \in 1..Len(n.Content) : MembersKept(n.Content[i], j.elems[i])
      [] OTHER -> TRUE

C3_DuplicatesKept ==
    /\ Converted => EntriesKept(Root, normalized)
    /\ Emitted => MembersKept(Root, ReadOutput(stdout))

(* a: 1 / a: 2 - the same key twice, with different values - was emitted. *)
C3_Witness ==
    /\ Emitted
    /\ IsMapping(Root)
    /\ NumPairs(Root) = 2
    /\ KeyTexts(Root)[1] = KeyTexts(Root)[2]
    /\ ValueNode(Root, 1) = Scalar(intTag, <<"1">>)
    /\ ValueNode(Root, 2) = Scalar(strTag, <<"a">>)

(***************************************************************************)
(* C4.  Empty input: when stdin holds no byte, or parsing succeeded and    *)
(* left the root node without a content child, run returns the             *)
(* empty-document error with neither convertNode nor the encoder called:   *)
(* the process exits non-zero and stdout stays empty.                      *)
(***************************************************************************)
ParsedEmpty ==
    /\ Len(phases) >= 2
    /\ ~(err # NoError /\ err[1] = "parse yaml")
    /\ Len(node.Content) = 0

C4_EmptyInput ==
    (stdin.class = "empty" \/ ParsedEmpty) =>
        /\ stdout = <<>>
        /\ normalized = Nil
        /\ \A i \in 1..Len(phases) : phases[i] \notin {"convert", "encode"}
        /\ pc = "exit" =>
              /\ err = <<"empty document">>
              /\ exitCode = 1
              /\ phases = <<"read", "parse", "check">>

(* The process has ended on a stream that holds comments only. *)
C4_Witness == pc = "exit" /\ stdin.class = "comment" /\ ParsedEmpty

(***************************************************************************)
(* C5.  Fail-fast pipeline: the statements run in the order read, parse,   *)
(* check, convert, encode; the first that fails ends the run, with exit    *)
(* code 1 and one diagnostic line on stderr naming it, and nothing on      *)
(* stdout when it is read, parse or the empty-document check; the exit     *)
(* code is 0 exactly when all five ran and none failed.                    *)
(***************************************************************************)
PhaseOrder == <<"read", "parse", "check", "convert", "encode">>

IsPrefix(p, q) == Len(p) <= Len(q) /\ SubSeq(q, 1, Len(p)) = p

Diagnostic(message) == <<"yaml_to_json: ">> \o message \o <<"\n">>

(* The first statement the input makes fail, before serialization. *)
FailsAt ==
    CASE stdin.class = "unreadable" -> 1
      [] stdin.class = "malformed" -> 2
      [] stdin.class \in {"empty", "comment"} -> 3
      [] OTHER -> 0

C5_FailFast ==
    /\ IsPrefix(phases, PhaseOrder)
    /\ (exitCode = Running) <=> (pc # "exit")
    /\ pc # "exit" => stderr = <<>>
    /\ pc = "exit" =>
          /\ exitCode \in {0, 1}
          /\ (exitCode = 0) <=> (err = NoError /\ phases = PhaseOrder)
          /\ exitCode = 0 => stderr = <<>>
          /\ exitCode = 1 =>
                /\ Len(stderr) = 1
                /\ stderr[1] = Diagnostic(err)
          /\ FailsAt > 0 =>
                /\ exitCode = 1
                /\ phases = SubSeq(PhaseOrder, 1, FailsAt)
                /\ stdout = <<>>
                /\ err[1] = <<"read stdin", "parse yaml", "empty document">>[FailsAt]
          /\ FailsAt = 0 =>
                /\ phases = PhaseOrder
                /\ exitCode = 1 => err[1] = "write json"

(* The process has ended on text that is not YAML. *)
C5_Witness == pc = "exit" /\ stdin.class = "malformed" /\ exitCode = 1

(***************************************************************************)
(* C6.  Encoding never fails on converter output, as the specification     *)
(* states it: when run returns the "write json" error, the cause is a      *)
(* failed write to stdout.                                                 *)
(***************************************************************************)
C6_EncodeNeverFails ==
    (pc \in {"return", "exit"} /\ err # NoError /\ err[1] = "write json")
        => err[2] = "write error"

(***************************************************************************)
(* C7.  Keys are verbatim text: each entry of the Ordered Object built for *)
(* a mapping node has the key node's Value as its key, whatever the key    *)
(* node resolves to, and convertNode of the value node as its value; the   *)
(* key is emitted as a JSON string of that text.                           *)
(***************************************************************************)
RECURSIVE KeysVerbatim(_, _)
KeysVerbatim(n, v) ==
    CASE IsMapping(n) /\ v.type = "orderedMap" /\ Len(v.Entries) = NumPairs(n) ->
            \A i \in 1..NumPairs(n) :
                /\ v.Entries[i].Key = n.Content[2 * i - 1].Value
                /\ v.Entries[i].Value = convertNode(ValueNode(n, i))
                /\ KeysVerbatim(ValueNode(n, i), v.Entries[i].Value)
      [] IsSequence(n) /\ v.type = "[]interface{}" /\ Len(v.items) = Len(n.Content) ->
            \A i \in 1..Len(n.Content) : KeysVerbatim(n.Content[i], v.items[i])
      [] OTHER -> TRUE

C7_KeysVerbatim ==
    /\ Converted => KeysVerbatim(Root, normalized)
    /\ (Emitted /\ IsMapping(Root)) =>
          LET j == ReadOutput(stdout) IN
          /\ j.type = "object"
          /\ \A i \in 1..Len(j.members) : j.members[i].key = Root.Content[2 * i - 1].Value

(* A key the parser resolved to !!null was converted and emitted. *)
C7_Witness ==
    /\ Emitted
    /\ IsMapping(Root)
    /\ NumPairs(Root) >= 1
    /\ Root.Content[1].Tag = nullTag
    /\ normalized.Entries[1].Key = <<"~">>

(***************************************************************************)
(* C8.  convert is total: convertNode returns a value of the value model   *)
(* for every tree the parser hands over, raising no error, and a scalar    *)
(* whose Decode fails converts to its raw text as a String.                *)
(***************************************************************************)
RECURSIVE IsValue(_)
IsValue(v) ==
    CASE v.type = "nil" -> v = Nil
      [] v.type = "bool" -> v.b \in BOOLEAN
      [] v.type = "int" -> v.n \in Int
      [] v.type = "float64" -> v.class \in {"NaN", "+Inf", "-Inf", "finite"}
      [] v.type = "string" -> \A i \in 1..Len(v.s) : v.s[i] \in STRING
      [] v.type = "[]interface{}" -> \A i \in 1..Len(v.items) : IsValue(v.items[i])
      [] v.type = "orderedMap" ->
            \A i \in 1..Len(v.Entries) : IsValue(v.Entries[i].Value)
      [] OTHER -> FALSE

RECURSIVE FallbackRaw(_, _)
FallbackRaw(n, v) ==
    CASE n.Kind = ScalarNode -> Decode(n).err => v = StringVal(n.Value)
      [] IsMapping(n) /\ v.type = "orderedMap" /\ Len(v.Entries) = NumPairs(n) ->
            \A i \in 1..NumPairs(n) : FallbackRaw(ValueNode(n, i), v.Entries[i].Value)
      [] IsSequence(n) /\ v.type = "[]interface{}" /\ Len(v.items) = Len(n.Content) ->
            \A i \in 1..Len(n.Content) : FallbackRaw(n.Content[i], v.items[i])
      [] OTHER -> TRUE

C8_ConvertTotal ==
    /\ pc = "encode" => err = NoError
    /\ Converted => IsValue(normalized) /\ FallbackRaw(Root, normalized)

(* A tree holding a scalar that does not decode (!!int a) was converted. *)
C8_Witness ==
    /\ Converted
    /\ \E n \in Subnodes(Root) : n.Kind = ScalarNode /\ Decode(n).err
    /\ Root.Kind # ScalarNode

(***************************************************************************)
(* C9.  Structural fidelity: for a tree of mapping, sequence and scalar    *)
(* nodes the converted value has the tree's shape: a sequence node with m  *)
(* children is a sequence of m elements, the i-th being convertNode of the *)
(* i-th child; a mapping node with n pairs an Ordered Object of n entries, *)
(* the i-th value being convertNode of the i-th value node.                *)
(***************************************************************************)
PlainTree(n) ==
    \A m \in Subnodes(n) : m.Kind \in {MappingNode, SequenceNode, ScalarNode}

RECURSIVE SameShape(_, _)
SameShape(n, v) ==
    CASE IsMapping(n) ->
            /\ v.type = "orderedMap"
            /\ Len(v.Entries) = NumPairs(n)
            /\ \A i \in 1..NumPairs(n) :
                  /\ v.Entries[i].Value = convertNode(ValueNode(n, i))
                  /\ SameShape(ValueNode(n, i), v.Entries[i].Value)
      [] IsSequence(n) ->
            /\ v.type = "[]interface{}"
            /\ Len(v.items) = Len(n.Content)
            /\ \A i \in 1..Len(n.Content) :
                  /\ v.items[i] = convertNode(n.Content[i])
                  /\ SameShape(n.Content[i], v.items[i])
      [] OTHER -> v.type \in {"nil", "bool", "int", "float64", "string"}

C9_SameShape == (Converted /\ PlainTree(Root)) => SameShape(Root, normalized)

(* A sequence of mappings was converted. *)
C9_Witness ==
    /\ Converted
    /\ PlainTree(Root)
    /\ IsSequence(Root)
    /\ \E i \in 1..Len(Root.Content) :
          IsMapping(Root.Content[i]) /\ NumPairs(Root.Content[i]) >= 1

(***************************************************************************)
(* C10.  Unknown kinds become Null: a node that is no document, mapping,   *)
(* sequence or scalar converts to Null whatever its children, text and     *)
(* alias target are, and so does a document node without content; a        *)
(* document node with content converts to convertNode of its first child.  *)
(***************************************************************************)
RECURSIVE NullKinds(_, _)
NullKinds(n, v) ==
    CASE n.Kind = DocumentNode ->
            IF Len(n.Content) = 0 THEN v = Nil
            ELSE v = convertNode(n.Content[1]) /\ NullKinds(n.Content[1], v)
      [] n.Kind = ScalarNode -> TRUE
      [] IsMapping(n) ->
            /\ v.type = "orderedMap"
            /\ Len(v.Entries) = NumPairs(n)
            /\ \A i \in 1..NumPairs(n) : NullKinds(ValueNode(n, i), v.Entries[i].Value)
      [] IsSequence(n) ->
            /\ v.type = "[]interface{}"
            /\ Len(v.items) = Len(n.Content)
            /\ \A i \in 1..Len(n.Content) : NullKinds(n.Content[i], v.items[i])
      [] OTHER -> v = Nil

C10_UnknownKindsNull == Converted => NullKinds(Root, normalized)

(* A nested document whose first child is an alias with a target and      *)
(* children was converted.                                                *)
C10_Witness ==
    /\ Converted
    /\ Root.Kind = DocumentNode
    /\ Len(Root.Content) > 0
    /\ Root.Content[1].Kind = AliasNode
    /\ Len(Root.Content[1].Content) > 0
    /\ Len(Root.Content[1].Alias) = 1
====
